---- MODULE Spec2Model ----
(***************************************************************************)
(* A model of the per-room synchronisation engine of bingo.gg,             *)
(* api/src/core/Room.ts: one Room, its Board, the channels (WebSocket      *)
(* connections) attached to its WebSocketServer, and the handlers the      *)
(* Room's constructor registers: 'connection', 'message', 'close' of a     *)
(* channel and 'close' of the server.                                      *)
(*                                                                         *)
(* Node runs every handler to completion before the next event, so every   *)
(* handler is one atomic action.  `out` holds what the running handler put *)
(* on the wire of each channel, in order, and `last` what that handler was *)
(* given and the state it started from; both are cleared when the handler  *)
(* has returned and the event loop is idle again (Idle).                   *)
(***************************************************************************)
EXTENDS Integers, Sequences, FiniteSets, TLC

\* The number of connections the room sees in a run.
MaxChannels == 2

Channels == 1 .. MaxChannels

BoardHeight == 5
BoardWidth == 5

Rows == 0 .. (BoardHeight - 1)
Cols == 0 .. (BoardWidth - 1)

\* The goals of the default board, Goals[row + 1][col + 1].
Goals ==
    << << "Collect 5 things", "Talk to 10 people", "A pointy device",
          "Obtain a hammer", "YELL" >>,
       << "10 Wells", "15 flames", "Beat the game", "Die 10 times",
          "Beat 5-2" >>,
       << "Beat 3-5", "Discover Persia", "Invent Religion",
          "C O N Q U E S T",
          "this is a really long goal name because sometimes these will exist and it needs to be tested against" >>,
       << "Return to Madagascar", "Morph Ball", "500 HP", "50 coins",
          "Have a civil war" >>,
       << "Game over", "Kill 300 enemies", "Explosives", "Compass",
          "Roads" >> >>

\* Room.board as constructed: every cell with its goal and no colors.
InitialBoard ==
    [row \in Rows |->
        [col \in Cols |-> [goal |-> Goals[row + 1][col + 1], colors |-> <<>>]]]

VARIABLES
    board,        \* Room.board.board: row -> col -> [goal, colors]
    clients,      \* websocketServer.clients: the channels attached to the server
    readyState,   \* channel -> "NONE" (not yet connected), "OPEN", "CLOSING", "CLOSED"
    serverState,  \* the WebSocketServer: "RUNNING" or "CLOSED"
    process,      \* "running", or "crashed" by an exception no handler caught
    out,          \* channel -> the messages the handler sent to it, in order
    last,         \* the event handled: its kind, channel, message and the state before it
    replica       \* channel -> the Board as its peer knows it from what it received

vars == << board, clients, readyState, serverState, process, out, last, replica >>

NoOutput == [c \in Channels |-> <<>>]

(***************************************************************************)
(* The Identity Resolver, ../auth/RoomAuth.verifyRoomToken: an identity    *)
(* for a token it can verify, an exception for any other.                  *)
(***************************************************************************)
Tokens == {"tokA", "tokB", "bad"}

ValidTokens == {"tokA", "tokB"}

verifyRoomToken(token) ==
    CASE token = "tokA" -> [nickname |-> "alice", color |-> "red"]
      [] token = "tokB" -> [nickname |-> "bob", color |-> "blue"]

verifyRoomTokenThrows(token) == token \notin ValidTokens

(***************************************************************************)
(* Broadcasting.                                                           *)
(***************************************************************************)

\* Fault: the message goes to every client, whatever its readyState.
sendServerMessageToAll(sent, cl, rs, message) ==
    [c \in Channels |-> IF c \in cl THEN Append(sent[c], message) ELSE sent[c]]

\* Room.sendServerMessage: the message, serialised, to every client of the
\* server whose readyState is OPEN; `sent` is what the handler has sent so far.
sendServerMessage(sent, cl, rs, message) ==
    [c \in Channels |->
        IF c \in cl /\ rs[c] = "OPEN" THEN Append(sent[c], message) ELSE sent[c]]

\* Room.sendChat
sendChat(sent, cl, rs, message) ==
    sendServerMessage(sent, cl, rs, [action |-> "chat", message |-> message])

\* Fault: the update names the cell with row and col exchanged.
sendCellUpdateSwapped(sent, cl, rs, b, row, col) ==
    sendServerMessage(sent, cl, rs,
        [action |-> "cellUpdate", row |-> col, col |-> row, cell |-> b[row][col]])

\* Room.sendCellUpdate: the cell as it is in b when the update is sent.
sendCellUpdate(sent, cl, rs, b, row, col) ==
    sendServerMessage(sent, cl, rs,
        [action |-> "cellUpdate", row |-> row, col |-> col, cell |-> b[row][col]])

\* ws.send(data) of one channel: the data goes out on an OPEN socket; on a
\* socket that is closing or closed it is discarded, without an exception.
wsSend(sent, rs, ws, message) ==
    IF rs[ws] = "OPEN" THEN [sent EXCEPT ![ws] = Append(@, message)] ELSE sent

\* ws.close(): an OPEN socket starts its closing handshake; otherwise nothing.
wsClose(rs, ws) ==
    IF rs[ws] = "OPEN" THEN [rs EXCEPT ![ws] = "CLOSING"] ELSE rs

(***************************************************************************)
(* The 'message' handler.  A handler's result: the board it leaves, what   *)
(* it sent, the readyStates it leaves, and whether an exception left it.   *)
(***************************************************************************)
Result(b, sent, rs, threw) ==
    [board |-> b, out |-> sent, readyState |-> rs, threw |-> threw]

\* A return before anything was done, and an exception caught by the catch.
Dropped(b, rs) == Result(b, NoOutput, rs, FALSE)

\* Array.prototype.includes
Includes(colors, color) == \E i \in DOMAIN colors : colors[i] = color

\* board[row][col] is a cell; reading .colors of anything else is a TypeError.
IsCell(b, row, col) == row \in DOMAIN b /\ col \in DOMAIN b[row]

\* `${identity.nickname} is marking (${row},${col})` and its like
Coordinates(row, col) == "(" \o ToString(row) \o "," \o ToString(col) \o ")"

\* Fault: the board is synced by a broadcast instead of a send to the sender.
JoinCaseSyncBroadcast(b, cl, rs, ws, identity) ==
    LET synced == sendServerMessage(NoOutput, cl, rs,
                      [action |-> "syncBoard", board |-> b])
    IN  Result(b, sendChat(synced, cl, rs, identity.nickname \o " has joined."),
               rs, FALSE)

\* case 'join'
JoinCase(b, cl, rs, ws, identity) ==
    LET synced == wsSend(NoOutput, rs, ws, [action |-> "syncBoard", board |-> b])
    IN  Result(b, sendChat(synced, cl, rs, identity.nickname \o " has joined."),
               rs, FALSE)

\* Fault: the socket is closed before the broadcast.
LeaveCaseCloseFirst(b, cl, rs, ws, identity) ==
    LET closed == wsClose(rs, ws)
    IN  Result(b, sendChat(NoOutput, cl, closed, identity.nickname \o " has left."),
               closed, FALSE)

\* case 'leave'
LeaveCase(b, cl, rs, ws, identity) ==
    Result(b, sendChat(NoOutput, cl, rs, identity.nickname \o " has left."),
           wsClose(rs, ws), FALSE)

\* Fault: the cell update is sent before the color is pushed.
MarkCaseStaleUpdate(b, cl, rs, identity, action) ==
    IF "payload" \notin DOMAIN action THEN Dropped(b, rs)
    ELSE LET payload == action.payload IN
    IF "row" \notin DOMAIN payload \/ "col" \notin DOMAIN payload
    THEN Dropped(b, rs)
    ELSE LET row == payload.row
             col == payload.col
    IN  IF ~IsCell(b, row, col) THEN Dropped(b, rs)
        ELSE IF Includes(b[row][col].colors, identity.color) THEN Dropped(b, rs)
        ELSE LET marked == [b EXCEPT ![row][col].colors = Append(@, identity.color)]
                 updated == sendCellUpdate(NoOutput, cl, rs, b, row, col)
             IN  Result(marked,
                        sendChat(updated, cl, rs,
                            identity.nickname \o " is marking " \o Coordinates(row, col)),
                        rs, FALSE)

\* Fault: no includes guard, a color already on the cell is pushed again.
MarkCaseNoGuard(b, cl, rs, identity, action) ==
    IF "payload" \notin DOMAIN action THEN Dropped(b, rs)
    ELSE LET payload == action.payload IN
    IF "row" \notin DOMAIN payload \/ "col" \notin DOMAIN payload
    THEN Dropped(b, rs)
    ELSE LET row == payload.row
             col == payload.col
    IN  IF ~IsCell(b, row, col) THEN Dropped(b, rs)
        ELSE LET marked == [b EXCEPT ![row][col].colors = Append(@, identity.color)]
                 updated == sendCellUpdate(NoOutput, cl, rs, marked, row, col)
             IN  Result(marked,
                        sendChat(updated, cl, rs,
                            identity.nickname \o " is marking " \o Coordinates(row, col)),
                        rs, FALSE)

\* Fault: a color already on the cell is not pushed, but the update and the
\* chat line are broadcast all the same.
MarkCaseRebroadcast(b, cl, rs, identity, action) ==
    IF "payload" \notin DOMAIN action THEN Dropped(b, rs)
    ELSE LET payload == action.payload IN
    IF "row" \notin DOMAIN payload \/ "col" \notin DOMAIN payload
    THEN Dropped(b, rs)
    ELSE LET row == payload.row
             col == payload.col
    IN  IF ~IsCell(b, row, col) THEN Dropped(b, rs)
        ELSE LET marked ==
                     IF Includes(b[row][col].colors, identity.color) THEN b
                     ELSE [b EXCEPT ![row][col].colors = Append(@, identity.color)]
                 updated == sendCellUpdate(NoOutput, cl, rs, marked, row, col)
             IN  Result(marked,
                        sendChat(updated, cl, rs,
                            identity.nickname \o " is marking " \o Coordinates(row, col)),
                        rs, FALSE)

\* Fault: a coordinate the payload omits defaults to 0.
MarkCaseDefaultCoordinates(b, cl, rs, identity, action) ==
    IF "payload" \notin DOMAIN action THEN Dropped(b, rs)
    ELSE LET payload == action.payload
             row == IF "row" \in DOMAIN payload THEN payload.row ELSE 0
             col == IF "col" \in DOMAIN payload THEN payload.col ELSE 0
    IN  IF ~IsCell(b, row, col) THEN Dropped(b, rs)
        ELSE IF Includes(b[row][col].colors, identity.color) THEN Dropped(b, rs)
        ELSE LET marked == [b EXCEPT ![row][col].colors = Append(@, identity.color)]
                 updated == sendCellUpdate(NoOutput, cl, rs, marked, row, col)
             IN  Result(marked,
                        sendChat(updated, cl, rs,
                            identity.nickname \o " is marking " \o Coordinates(row, col)),
                        rs, FALSE)

\* Fault: the cells of a row share one colors array, so a push shows on all.
MarkCaseSharedColors(b, cl, rs, identity, action) ==
    IF "payload" \notin DOMAIN action THEN Dropped(b, rs)
    ELSE LET payload == action.payload IN
    IF "row" \notin DOMAIN payload \/ "col" \notin DOMAIN payload
    THEN Dropped(b, rs)
    ELSE LET row == payload.row
             col == payload.col
    IN  IF ~IsCell(b, row, col) THEN Dropped(b, rs)
        ELSE IF Includes(b[row][col].colors, identity.color) THEN Dropped(b, rs)
        ELSE LET pushed == Append(b[row][col].colors, identity.color)
                 marked == [b EXCEPT ![row] =
                               [c \in DOMAIN b[row] |-> [b[row][c] EXCEPT !.colors = pushed]]]
                 updated == sendCellUpdate(NoOutput, cl, rs, marked, row, col)
             IN  Result(marked,
                        sendChat(updated, cl, rs,
                            identity.nickname \o " is marking " \o Coordinates(row, col)),
                        rs, FALSE)

\* Fault: the color is assigned as the cell's colors instead of pushed.
MarkCaseOverwrite(b, cl, rs, identity, action) ==
    IF "payload" \notin DOMAIN action THEN Dropped(b, rs)
    ELSE LET payload == action.payload IN
    IF "row" \notin DOMAIN payload \/ "col" \notin DOMAIN payload
    THEN Dropped(b, rs)
    ELSE LET row == payload.row
             col == payload.col
    IN  IF ~IsCell(b, row, col) THEN Dropped(b, rs)
        ELSE IF Includes(b[row][col].colors, identity.color) THEN Dropped(b, rs)
        ELSE LET marked == [b EXCEPT ![row][col].colors = << identity.color >>]
                 updated == sendCellUpdate(NoOutput, cl, rs, marked, row, col)
             IN  Result(marked,
                        sendChat(updated, cl, rs,
                            identity.nickname \o " is marking " \o Coordinates(row, col)),
                        rs, FALSE)

\* case 'mark'
MarkCase(b, cl, rs, identity, action) ==
    IF "payload" \notin DOMAIN action THEN Dropped(b, rs)
    ELSE LET payload == action.payload IN
    IF "row" \notin DOMAIN payload \/ "col" \notin DOMAIN payload
    THEN Dropped(b, rs)
    ELSE LET row == payload.row
             col == payload.col
    IN  IF ~IsCell(b, row, col) THEN Dropped(b, rs)
        ELSE IF Includes(b[row][col].colors, identity.color) THEN Dropped(b, rs)
        ELSE LET marked == [b EXCEPT ![row][col].colors = Append(@, identity.color)]
                 updated == sendCellUpdate(NoOutput, cl, rs, marked, row, col)
             IN  Result(marked,
                        sendChat(updated, cl, rs,
                            identity.nickname \o " is marking " \o Coordinates(row, col)),
                        rs, FALSE)

\* Fault: an unmark of a color that is not on the cell returns early.
UnmarkCaseGuarded(b, cl, rs, identity, action) ==
    IF "payload" \notin DOMAIN action THEN Dropped(b, rs)
    ELSE LET payload == action.payload IN
    IF "row" \notin DOMAIN payload \/ "col" \notin DOMAIN payload
    THEN Dropped(b, rs)
    ELSE LET unRow == payload.row
             unCol == payload.col
    IN  IF ~IsCell(b, unRow, unCol) THEN Dropped(b, rs)
        ELSE IF ~Includes(b[unRow][unCol].colors, identity.color) THEN Dropped(b, rs)
        ELSE LET unmarked ==
                     [b EXCEPT ![unRow][unCol].colors =
                         SelectSeq(@, LAMBDA color : color # identity.color)]
                 updated == sendCellUpdate(NoOutput, cl, rs, unmarked, unRow, unCol)
             IN  Result(unmarked,
                        sendChat(updated, cl, rs,
                            identity.nickname \o " is unmarking " \o Coordinates(unRow, unCol)),
                        rs, FALSE)

\* Fault: coordinates that address no cell are read with optional chaining,
\* so nothing throws and the update (without a cell) and the chat line go out.
UnmarkCaseNoThrow(b, cl, rs, identity, action) ==
    IF "payload" \notin DOMAIN action THEN Dropped(b, rs)
    ELSE LET payload == action.payload IN
    IF "row" \notin DOMAIN payload \/ "col" \notin DOMAIN payload
    THEN Dropped(b, rs)
    ELSE LET unRow == payload.row
             unCol == payload.col
             line == identity.nickname \o " is unmarking " \o Coordinates(unRow, unCol)
    IN  IF ~IsCell(b, unRow, unCol)
        THEN Result(b,
                 sendChat(sendServerMessage(NoOutput, cl, rs,
                              [action |-> "cellUpdate", row |-> unRow, col |-> unCol]),
                          cl, rs, line),
                 rs, FALSE)
        ELSE LET unmarked ==
                     [b EXCEPT ![unRow][unCol].colors =
                         SelectSeq(@, LAMBDA color : color # identity.color)]
                 updated == sendCellUpdate(NoOutput, cl, rs, unmarked, unRow, unCol)
             IN  Result(unmarked, sendChat(updated, cl, rs, line), rs, FALSE)

\* Fault: the filter keeps the sender's color and removes the others.
UnmarkCaseInvertedFilter(b, cl, rs, identity, action) ==
    IF "payload" \notin DOMAIN action THEN Dropped(b, rs)
    ELSE LET payload == action.payload IN
    IF "row" \notin DOMAIN payload \/ "col" \notin DOMAIN payload
    THEN Dropped(b, rs)
    ELSE LET unRow == payload.row
             unCol == payload.col
    IN  IF ~IsCell(b, unRow, unCol) THEN Dropped(b, rs)
        ELSE LET unmarked ==
                     [b EXCEPT ![unRow][unCol].colors =
                         SelectSeq(@, LAMBDA color : color = identity.color)]
                 updated == sendCellUpdate(NoOutput, cl, rs, unmarked, unRow, unCol)
             IN  Result(unmarked,
                        sendChat(updated, cl, rs,
                            identity.nickname \o " is unmarking " \o Coordinates(unRow, unCol)),
                        rs, FALSE)

\* case 'unmark'
UnmarkCase(b, cl, rs, identity, action) ==
    IF "payload" \notin DOMAIN action THEN Dropped(b, rs)
    ELSE LET payload == action.payload IN
    IF "row" \notin DOMAIN payload \/ "col" \notin DOMAIN payload
    THEN Dropped(b, rs)
    ELSE LET unRow == payload.row
             unCol == payload.col
    IN  IF ~IsCell(b, unRow, unCol) THEN Dropped(b, rs)
        ELSE LET unmarked ==
                     [b EXCEPT ![unRow][unCol].colors =
                         SelectSeq(@, LAMBDA color : color # identity.color)]
                 updated == sendCellUpdate(NoOutput, cl, rs, unmarked, unRow, unCol)
             IN  Result(unmarked,
                        sendChat(updated, cl, rs,
                            identity.nickname \o " is unmarking " \o Coordinates(unRow, unCol)),
                        rs, FALSE)

\* Fault: the chat line is prefixed with the sender's nickname.
ChatCaseAttributed(b, cl, rs, identity, action) ==
    IF "payload" \notin DOMAIN action THEN Dropped(b, rs)
    ELSE IF "message" \in DOMAIN action.payload
    THEN Result(b, sendChat(NoOutput, cl, rs,
                    identity.nickname \o ": " \o action.payload.message), rs, FALSE)
    ELSE Result(b, sendServerMessage(NoOutput, cl, rs, [action |-> "chat"]), rs, FALSE)

\* case 'chat'.  The guard reads `message`, the handler's raw data, which is
\* an object and so never falsy; a payload without a message is broadcast as
\* a chat whose message is undefined, which JSON.stringify leaves out.
ChatCase(b, cl, rs, identity, action) ==
    IF "payload" \notin DOMAIN action THEN Dropped(b, rs)
    ELSE IF "message" \in DOMAIN action.payload
    THEN Result(b, sendChat(NoOutput, cl, rs, action.payload.message), rs, FALSE)
    ELSE Result(b, sendServerMessage(NoOutput, cl, rs, [action |-> "chat"]), rs, FALSE)

\* Fault: a chat is dispatched before the token is verified.
MessageHandlerChatUnverified(b, cl, rs, ws, message) ==
    IF message.json = "invalid" THEN Result(b, NoOutput, rs, TRUE)
    ELSE IF message.json = "null" THEN Dropped(b, rs)
    ELSE LET action == message.value IN
    IF action.action = "chat" THEN ChatCase(b, cl, rs, [nickname |-> "", color |-> ""], action)
    ELSE IF verifyRoomTokenThrows(action.authToken) THEN Dropped(b, rs)
    ELSE LET identity == verifyRoomToken(action.authToken) IN
        CASE action.action = "join" -> JoinCase(b, cl, rs, ws, identity)
          [] action.action = "leave" -> LeaveCase(b, cl, rs, ws, identity)
          [] action.action = "mark" -> MarkCase(b, cl, rs, identity, action)
          [] action.action = "unmark" -> UnmarkCase(b, cl, rs, identity, action)
          [] OTHER -> Dropped(b, rs)

\* ws.on('message', ...): JSON.parse before the try, the rest inside it.
MessageHandler(b, cl, rs, ws, message) ==
    IF message.json = "invalid" THEN Result(b, NoOutput, rs, TRUE)
    ELSE IF message.json = "null" THEN Dropped(b, rs)
    ELSE LET action == message.value IN
    IF verifyRoomTokenThrows(action.authToken) THEN Dropped(b, rs)
    ELSE LET identity == verifyRoomToken(action.authToken) IN
        CASE action.action = "join" -> JoinCase(b, cl, rs, ws, identity)
          [] action.action = "leave" -> LeaveCase(b, cl, rs, ws, identity)
          [] action.action = "mark" -> MarkCase(b, cl, rs, identity, action)
          [] action.action = "unmark" -> UnmarkCase(b, cl, rs, identity, action)
          [] action.action = "chat" -> ChatCase(b, cl, rs, identity, action)
          [] OTHER -> Dropped(b, rs)

(***************************************************************************)
(* The messages a channel may deliver.                                     *)
(***************************************************************************)
\* Coordinates that address a cell, and coordinates that address none.
CellInputs == {<< 0, 0 >>, << BoardHeight - 1, 2 >>}
NoCellInputs == {<< -1, 0 >>, << BoardHeight, 0 >>, << 0, -1 >>, << 0, BoardWidth >>}

CellPayloads ==
    {[row |-> rc[1], col |-> rc[2]] : rc \in CellInputs \cup NoCellInputs}
    \cup {[row |-> 0], [col |-> 0]}

ChatPayloads == {[message |-> "hi"], [message |-> ""], [row |-> 0]}

\* Every kind of action, with and without a payload, with every token.
RoomActions ==
    [action : {"join", "leave", "mark", "unmark", "chat"}, authToken : Tokens]
    \cup [action : {"mark", "unmark"}, authToken : Tokens, payload : CellPayloads]
    \cup [action : {"chat"}, authToken : Tokens, payload : ChatPayloads]

\* Raw data: text that is no JSON, the JSON text null, or a RoomAction's JSON.
RawMessages ==
    {[json |-> "invalid"], [json |-> "null"]}
    \cup {[json |-> "object", value |-> a] : a \in RoomActions}

NoMessage == [json |-> "none"]

\* No handler is running.
NoEvent == [kind |-> "idle"]

Event(kind, ws, message, threw) ==
    [kind |-> kind, ws |-> ws, message |-> message, threw |-> threw,
     board |-> board, clients |-> clients, readyState |-> readyState]

(***************************************************************************)
(* The peer of a channel keeps a replica of the Board: a syncBoard gives   *)
(* it the whole Board, a cellUpdate replaces one cell of it, a chat leaves *)
(* it alone.  The replica is followed while the channel is open.           *)
(***************************************************************************)
NoReplica == [synced |-> FALSE]

ApplyServerMessage(rep, m) ==
    CASE m.action = "syncBoard" -> [synced |-> TRUE, board |-> m.board]
      [] m.action = "cellUpdate" ->
            IF rep.synced /\ "cell" \in DOMAIN m /\ IsCell(rep.board, m.row, m.col)
            THEN [rep EXCEPT !.board[m.row][m.col] = m.cell]
            ELSE rep
      [] OTHER -> rep

RECURSIVE ApplyAll(_, _)
ApplyAll(rep, sent) ==
    IF sent = << >> THEN rep
    ELSE ApplyAll(ApplyServerMessage(rep, Head(sent)), Tail(sent))

\* The replicas after the peers have received what a handler sent.
Received(reps, sent, rs) ==
    [c \in Channels |->
        IF rs[c] = "OPEN" THEN ApplyAll(reps[c], sent[c]) ELSE NoReplica]

(***************************************************************************)
(* The state after construction, and the events.                           *)
(***************************************************************************)
Init ==
    /\ board = InitialBoard
    /\ clients = {}
    /\ readyState = [c \in Channels |-> "NONE"]
    /\ serverState = "RUNNING"
    /\ process = "running"
    /\ out = NoOutput
    /\ last = NoEvent
    /\ replica = [c \in Channels |-> NoReplica]

\* websocketServer.on('connection'): the server has opened the socket and
\* added it to its clients; the handler broadcasts 'join'.
Connection(ws) ==
    /\ process = "running"
    /\ last = NoEvent
    /\ serverState = "RUNNING"
    /\ readyState[ws] = "NONE"
    /\ \A c \in Channels : c < ws => readyState[c] # "NONE"
    /\ readyState' = [readyState EXCEPT ![ws] = "OPEN"]
    /\ clients' = clients \cup {ws}
    /\ out' = sendChat(NoOutput, clients', readyState', "join")
    /\ last' = Event("connection", ws, NoMessage, FALSE)
    /\ replica' = Received(replica, out', readyState')
    /\ UNCHANGED << board, serverState, process >>

\* ws.on('message'): data arrives on a socket that has not yet emitted
\* 'close' (it is open, or closing with data of the peer still arriving).
Message(ws, message) ==
    /\ process = "running"
    /\ last = NoEvent
    /\ ws \in clients
    /\ LET r == MessageHandler(board, clients, readyState, ws, message)
       IN  /\ board' = r.board
           /\ out' = r.out
           /\ readyState' = r.readyState
           /\ last' = Event("message", ws, message, r.threw)
           /\ replica' = Received(replica, r.out, r.readyState)
           /\ IF r.threw THEN process' \in {"running", "crashed"}
                         ELSE process' = process
    /\ UNCHANGED << clients, serverState >>

\* Fault: 'leave' is broadcast before the socket counts as closed.
CloseBroadcastFirst(ws) ==
    /\ process = "running"
    /\ last = NoEvent
    /\ ws \in clients
    /\ readyState' = [readyState EXCEPT ![ws] = "CLOSED"]
    /\ clients' = clients \ {ws}
    /\ out' = sendChat(NoOutput, clients, readyState, "leave")
    /\ last' = Event("close", ws, NoMessage, FALSE)
    /\ replica' = Received(replica, out', readyState')
    /\ UNCHANGED << board, serverState, process >>

\* ws.on('close'): the socket is closed (the peer went away, or the closing
\* handshake ended) and the server has removed it from its clients; the
\* handler broadcasts 'leave'.
Close(ws) ==
    /\ process = "running"
    /\ last = NoEvent
    /\ ws \in clients
    /\ readyState' = [readyState EXCEPT ![ws] = "CLOSED"]
    /\ clients' = clients \ {ws}
    /\ out' = sendChat(NoOutput, clients', readyState', "leave")
    /\ last' = Event("close", ws, NoMessage, FALSE)
    /\ replica' = Received(replica, out', readyState')
    /\ UNCHANGED << board, serverState, process >>

\* websocketServer.on('close'): the server stops accepting connections; its
\* clients stay as they are; the handler broadcasts 'leave'.
ServerClose ==
    /\ process = "running"
    /\ last = NoEvent
    /\ serverState = "RUNNING"
    /\ serverState' = "CLOSED"
    /\ out' = sendChat(NoOutput, clients, readyState, "leave")
    /\ last' = Event("serverClose", 0, NoMessage, FALSE)
    /\ replica' = Received(replica, out', readyState)
    /\ UNCHANGED << board, clients, readyState, process >>

\* The handler has returned: the event loop is idle until the next event.
Idle ==
    /\ last # NoEvent
    /\ last' = NoEvent
    /\ out' = NoOutput
    /\ UNCHANGED << board, clients, readyState, serverState, process, replica >>

Next ==
    \/ \E ws \in Channels : Connection(ws)
    \/ \E ws \in Channels : \E message \in RawMessages : Message(ws, message)
    \/ \E ws \in Channels : Close(ws)
    \/ ServerClose
    \/ Idle

Spec == Init /\ [][Next]_vars

TypeOK ==
    /\ clients \subseteq Channels
    /\ readyState \in [Channels -> {"NONE", "OPEN", "CLOSING", "CLOSED"}]
    /\ clients = {c \in Channels : readyState[c] \in {"OPEN", "CLOSING"}}
    /\ serverState \in {"RUNNING", "CLOSED"}
    /\ process \in {"running", "crashed"}
    /\ DOMAIN board = Rows
    /\ \A row \in Rows : DOMAIN board[row] = Cols

(***************************************************************************)
(* What the properties below read of the event being handled.              *)
(***************************************************************************)

\* The handler is handling a RoomAction of this kind.
Handling(kind) ==
    /\ last.kind = "message"
    /\ last.message.json = "object"
    /\ last.message.value.action = kind

TokenResolves == last.message.value.authToken \in ValidTokens

Sender == verifyRoomToken(last.message.value.authToken)

\* The action carries row and col, and they address a cell of the board.
AddressesCell ==
    /\ "payload" \in DOMAIN last.message.value
    /\ "row" \in DOMAIN last.message.value.payload
    /\ "col" \in DOMAIN last.message.value.payload
    /\ last.message.value.payload.row \in Rows
    /\ last.message.value.payload.col \in Cols

Row == last.message.value.payload.row
Col == last.message.value.payload.col

\* The channels that were open when the event arrived.
OpenBefore == {c \in last.clients : last.readyState[c] = "OPEN"}

\* The sender's color was on the addressed cell when the action arrived.
ColorWasOnCell ==
    \E i \in DOMAIN last.board[Row][Col].colors :
        last.board[Row][Col].colors[i] = Sender.color

CellUpdateOf(b) ==
    [action |-> "cellUpdate", row |-> Row, col |-> Col, cell |-> b[Row][Col]]

ChatLine(text) == [action |-> "chat", message |-> text]

Place == "(" \o ToString(Row) \o "," \o ToString(Col) \o ")"

\* C1: an action, of any kind, whose authToken cannot be resolved sends
\* nothing to any channel, the sender included, and leaves the Board (and
\* every channel) as it was.
C1_UnresolvableTokenDropped ==
    ( /\ last.kind = "message"
      /\ last.message.json = "object"
      /\ verifyRoomTokenThrows(last.message.value.authToken) )
    => /\ out = NoOutput
       /\ board = last.board
       /\ readyState = last.readyState
       /\ ~last.threw

\* A chat with a message and an unresolvable token has been handled while
\* two channels were open.
C1_Witness ==
    /\ Handling("chat")
    /\ ~TokenResolves
    /\ "payload" \in DOMAIN last.message.value
    /\ "message" \in DOMAIN last.message.value.payload
    /\ Cardinality(OpenBefore) >= 2
    /\ out = NoOutput

\* C2: a mark with a valid token that addresses a cell the sender's color is
\* not on adds that color, and only it, to that cell; every channel open at
\* that moment receives the cellUpdate of the cell as it is after the
\* mutation and then the chat line "<nickname> is marking (row,col)", and
\* nothing else; no other channel receives anything.
C2_MarkAddsAndBroadcasts ==
    (Handling("mark") /\ TokenResolves /\ AddressesCell /\ ~ColorWasOnCell)
    => /\ board = [last.board EXCEPT
                      ![Row][Col].colors = Append(@, Sender.color)]
       /\ \A c \in Channels :
            out[c] = IF c \in OpenBefore
                     THEN << CellUpdateOf(board),
                             ChatLine(Sender.nickname \o " is marking " \o Place) >>
                     ELSE << >>

\* A mark has been applied to a cell that held the other color, with two
\* channels open.
C2_Witness ==
    /\ Handling("mark") /\ TokenResolves /\ AddressesCell /\ ~ColorWasOnCell
    /\ Len(last.board[Row][Col].colors) = 1
    /\ Len(board[Row][Col].colors) = 2
    /\ Cardinality(OpenBefore) >= 2

\* C3: a mark with a valid token whose color is already on the addressed
\* cell is dropped: the Board is unchanged and nothing is sent.
C3_MarkOfPresentColorDropped ==
    (Handling("mark") /\ TokenResolves /\ AddressesCell /\ ColorWasOnCell)
    => /\ board = last.board
       /\ out = NoOutput

\* Such a mark has been handled on a cell holding both colors, with two
\* channels open.
C3_Witness ==
    /\ Handling("mark") /\ TokenResolves /\ AddressesCell /\ ColorWasOnCell
    /\ Len(last.board[Row][Col].colors) = 2
    /\ Cardinality(OpenBefore) >= 2

\* C4 as claimed: a mark whose color is already on the cell leaves the Board
\* unchanged and still sends the cellUpdate/chat pair to the open channels.
C4_RepeatedMarkRebroadcasts ==
    (Handling("mark") /\ TokenResolves /\ AddressesCell /\ ColorWasOnCell)
    => /\ board = last.board
       /\ \A c \in OpenBefore :
            out[c] = << CellUpdateOf(board),
                        ChatLine(Sender.nickname \o " is marking " \o Place) >>

\* The raw data of a mark of the cell rc with the token.
MarkOf(token, rc) ==
    [json |-> "object",
     value |-> [action |-> "mark", authToken |-> token,
                payload |-> [row |-> rc[1], col |-> rc[2]]]]

\* C4, amended: when a client repeats a mark, the first having left its
\* color on the cell, the repeat leaves the Board as the first left it and
\* sends nothing: no cellUpdate/chat pair is emitted.  In every state, for
\* every channel that can deliver, every valid token and every cell:
C4_RepeatedMarkSilent ==
    \A ws \in clients : \A token \in ValidTokens : \A rc \in CellInputs :
        LET first == MessageHandler(board, clients, readyState, ws,
                                    MarkOf(token, rc))
            again == MessageHandler(first.board, clients, first.readyState, ws,
                                    MarkOf(token, rc))
        IN  /\ Includes(first.board[rc[1]][rc[2]].colors,
                        verifyRoomToken(token).color)
            /\ again.board = first.board
            /\ again.out = NoOutput

\* A mark has been handled on a cell that held the sender's color and no
\* other, with its sender and another channel open.
C4_Witness ==
    /\ Handling("mark") /\ TokenResolves /\ AddressesCell
    /\ last.board[Row][Col].colors = << Sender.color >>
    /\ last.ws \in OpenBefore
    /\ Cardinality(OpenBefore) >= 2
    /\ out = NoOutput

\* C5: an unmark with a valid token that addresses a cell the sender's color
\* is not on leaves the Board unchanged; every channel open at that moment
\* still receives the cellUpdate of the unchanged cell and then the chat
\* line "<nickname> is unmarking (row,col)".
C5_UnmarkOfAbsentColorBroadcasts ==
    (Handling("unmark") /\ TokenResolves /\ AddressesCell /\ ~ColorWasOnCell)
    => /\ board = last.board
       /\ \A c \in Channels :
            out[c] = IF c \in OpenBefore
                     THEN << CellUpdateOf(last.board),
                             ChatLine(Sender.nickname \o " is unmarking " \o Place) >>
                     ELSE << >>

\* Such an unmark has been handled on a cell holding the other color, with
\* two channels open.
C5_Witness ==
    /\ Handling("unmark") /\ TokenResolves /\ AddressesCell /\ ~ColorWasOnCell
    /\ Len(last.board[Row][Col].colors) = 1
    /\ Cardinality(OpenBefore) >= 2

\* What a join sends: the board to the sender, then the chat line to the
\* open channels.
JoinSent ==
    /\ out[last.ws] = << [action |-> "syncBoard", board |-> last.board],
                         ChatLine(Sender.nickname \o " has joined.") >>
    /\ \A c \in Channels \ {last.ws} :
            out[c] = IF c \in OpenBefore
                     THEN << ChatLine(Sender.nickname \o " has joined.") >>
                     ELSE << >>
    /\ board = last.board

LeaveSent ==
    /\ \A c \in Channels :
            out[c] = IF c \in OpenBefore
                     THEN << ChatLine(Sender.nickname \o " has left.") >>
                     ELSE << >>
    /\ out[last.ws] = << ChatLine(Sender.nickname \o " has left.") >>
    /\ readyState = [last.readyState EXCEPT ![last.ws] = "CLOSING"]

\* A channel that is closing or closed is not open after the step.
NeverReopens ==
    \A c \in Channels :
        readyState[c] \in {"CLOSING", "CLOSED"} => readyState'[c] # "OPEN"

C8_CloseBroadcastsLeaveOnce ==
    /\ last.kind = "close"
        => /\ last.readyState[last.ws] \in {"OPEN", "CLOSING"}
           /\ readyState[last.ws] = "CLOSED"
           /\ last.ws \notin clients
           /\ out[last.ws] = << >>
           /\ \A c \in Channels :
                out[c] = IF c \in clients /\ readyState[c] = "OPEN"
                         THEN << ChatLine("leave") >>
                         ELSE << >>
    /\ (Handling("leave") /\ TokenResolves)
        => /\ last.ws \in clients
           /\ \A c \in Channels : \A i \in DOMAIN out[c] :
                out[c][i] # ChatLine("leave")

\* A channel that was open has closed without a leave, another channel open.
C8_Witness ==
    /\ last.kind = "close"
    /\ last.readyState[last.ws] = "OPEN"
    /\ \E c \in Channels : out[c] = << ChatLine("leave") >>

\* C9: a mark with a valid token that addresses a cell, delivered on a
\* channel that is no longer open, leaves the Board unchanged and sends
\* nothing to any open channel.
C9_StaleMarkHasNoEffect ==
    ( /\ Handling("mark") /\ TokenResolves /\ AddressesCell
      /\ last.readyState[last.ws] # "OPEN" )
    => /\ board = last.board
       /\ \A c \in OpenBefore : out[c] = << >>

\* C10: a message that cannot be decoded into an action is dropped inside
\* the handler: nothing is sent, the Board is unchanged, and no exception
\* leaves the handler, so the room goes on.
C10_UndecodableMessageDropped ==
    (last.kind = "message" /\ last.message.json \in {"invalid", "null"})
    => /\ out = NoOutput
       /\ board = last.board
       /\ ~last.threw
       /\ process = "running"

\* The action carries both coordinates (whether or not they address a cell).
HasCoordinates ==
    /\ "payload" \in DOMAIN last.message.value
    /\ "row" \in DOMAIN last.message.value.payload
    /\ "col" \in DOMAIN last.message.value.payload

\* C11: a mark or unmark with a valid token whose payload omits row or col,
\* or that has no payload at all, sends nothing and leaves the Board
\* unchanged.
C11_MissingCoordinatesDropped ==
    ( /\ Handling("mark") \/ Handling("unmark")
      /\ TokenResolves
      /\ ~HasCoordinates )
    => /\ out = NoOutput
       /\ board = last.board
       /\ ~last.threw

\* A mark that carries a row and no col has been handled with two channels
\* open, the cell (0,0) not holding the sender's color.
C11_Witness ==
    /\ Handling("mark") /\ TokenResolves
    /\ "payload" \in DOMAIN last.message.value
    /\ "col" \notin DOMAIN last.message.value.payload
    /\ ~Includes(last.board[0][0].colors, Sender.color)
    /\ Cardinality(OpenBefore) >= 2

\* C12: a mark or unmark with a valid token whose row or col lies outside
\* the grid (negative or not below 5, in either coordinate) is dropped
\* inside the handler: no cell changes, the grid stays 5x5, nothing is sent
\* to any channel and no exception leaves the handler.
C12_OutOfRangeDropped ==
    ( /\ Handling("mark") \/ Handling("unmark")
      /\ TokenResolves
      /\ HasCoordinates
      /\ ~(Row \in Rows /\ Col \in Cols) )
    => /\ board = last.board
       /\ DOMAIN board = Rows
       /\ \A row \in Rows : DOMAIN board[row] = Cols
       /\ out = NoOutput
       /\ ~last.threw

\* An unmark with a column outside the grid has been handled on a marked
\* Board with two channels open.
C12_Witness ==
    /\ Handling("unmark") /\ TokenResolves /\ HasCoordinates
    /\ Row \in Rows /\ Col \notin Cols
    /\ board # InitialBoard
    /\ Cardinality(OpenBefore) >= 2

\* The channels that are open when the handler broadcasts: a message handler
\* broadcasts before it closes anything; the other handlers run after the
\* server has added or removed their channel.
OpenAtBroadcast ==
    IF last.kind = "message" THEN OpenBefore
    ELSE {c \in clients : readyState[c] = "OPEN"}

\* The chat and cellUpdate messages among those sent to a channel.
Broadcasts(sent) == SelectSeq(sent, LAMBDA m : m.action # "syncBoard")

\* C13: whatever a handler broadcasts (chat or cellUpdate) reaches every
\* channel that is open at that moment, each message once and the same
\* messages in the same order for all of them; a channel that is closing or
\* closed (or not connected) receives nothing, and skipping it raises nothing.
C13_BroadcastReachesExactlyTheOpen ==
    last # NoEvent
    => /\ \A c \in Channels \ OpenAtBroadcast : out[c] = << >>
       /\ \A c, d \in OpenAtBroadcast : Broadcasts(out[c]) = Broadcasts(out[d])
       /\ last.kind \in {"connection", "close", "serverClose"}
            => \A c \in OpenAtBroadcast : Len(out[c]) = 1
       /\ \A c \in Channels : \A i, j \in DOMAIN out[c] :
            i # j => out[c][i] # out[c][j]
       /\ last.threw => (last.kind = "message" /\ last.message.json = "invalid")

\* A cell update and its chat line have been broadcast while one client of
\* the server was open and another closing: the first has both, the second
\* nothing.
C13_Witness ==
    /\ Handling("mark")
    /\ \E c \in last.clients : last.readyState[c] = "CLOSING" /\ out[c] = << >>
    /\ \E c \in OpenBefore : Len(out[c]) = 2

\* C14: in every reachable state no cell of the Board holds a color twice.
C14_ColorsUniquePerCell ==
    \A row \in Rows : \A col \in Cols :
        \A i, j \in DOMAIN board[row][col].colors :
            i # j => board[row][col].colors[i] # board[row][col].colors[j]

\* Marks and unmarks of both identities have left a cell with "blue" before
\* "red", and a further mark of it by one of them has been handled.
C14_Witness ==
    /\ Handling("mark") /\ TokenResolves /\ AddressesCell
    /\ last.board[Row][Col].colors = << "blue", "red" >>
    /\ board[Row][Col].colors = << "blue", "red" >>

\* The Board but for the colors of the addressed cell.
SameButAddressedColors ==
    /\ DOMAIN board = DOMAIN last.board
    /\ \A row \in DOMAIN board :
        /\ DOMAIN board[row] = DOMAIN last.board[row]
        /\ \A col \in DOMAIN board[row] :
            /\ board[row][col].goal = last.board[row][col].goal
            /\ (row # Row \/ col # Col)
                => board[row][col] = last.board[row][col]

\* C15: the Board changes only by a mark that adds its color or an unmark
\* that removes its color, and then only in the colors of the addressed
\* cell; a connection, join, leave, chat, channel close, server close and
\* every dropped action leave it as it was; the grid is always 5x5 and every
\* cell keeps the goal it was constructed with.
C15_BoardChangesOnlyByMarkAndUnmark ==
    /\ DOMAIN board = Rows
    /\ \A row \in Rows :
        /\ DOMAIN board[row] = Cols
        /\ \A col \in Cols : board[row][col].goal = Goals[row + 1][col + 1]
    /\ (last # NoEvent /\ board # last.board)
        => /\ TokenResolves /\ AddressesCell
           /\ \/ Handling("mark") /\ ~ColorWasOnCell
              \/ Handling("unmark") /\ ColorWasOnCell
           /\ SameButAddressedColors

\* An unmark has removed a color from the cell (4,2) while the cell (0,0)
\* held colors.
C15_Witness ==
    /\ Handling("unmark") /\ TokenResolves /\ AddressesCell /\ ColorWasOnCell
    /\ Row = BoardHeight - 1 /\ Col = 2
    /\ board # last.board
    /\ Len(board[0][0].colors) > 0

\* The colors of a cell as a set.
ColorSet(colors) == {colors[i] : i \in DOMAIN colors}

\* The Board after the handler has handled, on channel ws, a mark of the
\* cell rc with the token, starting from the Board b.
AfterMark(b, ws, token, rc) ==
    MessageHandler(b, clients, readyState, ws, MarkOf(token, rc)).board

\* C16: from every Board the room can be idle with, for every cell and two
\* tokens of different colors: marking the cell with the one and then the
\* other leaves the same set of colors on it, both among them, as marking in
\* the other order; and marking it twice with one token leaves what marking
\* once does.
C16_MarkCommutesAndIsIdempotent ==
    last = NoEvent =>
    \A ws \in clients : \A rc \in CellInputs :
        \A t1, t2 \in ValidTokens :
            verifyRoomToken(t1).color # verifyRoomToken(t2).color
            => LET oneTwo == AfterMark(AfterMark(board, ws, t1, rc), ws, t2, rc)
                   twoOne == AfterMark(AfterMark(board, ws, t2, rc), ws, t1, rc)
                   once == AfterMark(board, ws, t1, rc)
                   twice == AfterMark(once, ws, t1, rc)
               IN  /\ ColorSet(oneTwo[rc[1]][rc[2]].colors)
                        = ColorSet(twoOne[rc[1]][rc[2]].colors)
                   /\ {verifyRoomToken(t1).color, verifyRoomToken(t2).color}
                        \subseteq ColorSet(oneTwo[rc[1]][rc[2]].colors)
                   /\ twice = once

\* "red" has been marked on an unmarked cell and then "blue", and in another
\* cell "blue" and then "red": both hold the two colors, in different order.
C16_Witness ==
    /\ Handling("mark") /\ TokenResolves /\ AddressesCell /\ ~ColorWasOnCell
    /\ \E rc \in CellInputs : board[rc[1]][rc[2]].colors = << "red", "blue" >>
    /\ \E rc \in CellInputs : board[rc[1]][rc[2]].colors = << "blue", "red" >>

\* C17: an unmark with a valid token of a cell that holds the sender's color
\* (a mark put it there) removes that color and no other from the cell: the
\* other colors of the cell stay, in their order, and every other cell is
\* as it was.
C17_UnmarkRemovesExactlyItsColor ==
    (Handling("unmark") /\ TokenResolves /\ AddressesCell /\ ColorWasOnCell)
    => /\ ColorSet(board[Row][Col].colors)
            = ColorSet(last.board[Row][Col].colors) \ {Sender.color}
       /\ Len(board[Row][Col].colors) = Len(last.board[Row][Col].colors) - 1
       /\ SameButAddressedColors

\* An unmark has been handled on a cell that held both colors while another
\* cell held colors too.
C17_Witness ==
    /\ Handling("unmark") /\ TokenResolves /\ AddressesCell /\ ColorWasOnCell
    /\ Len(last.board[Row][Col].colors) = 2
    /\ Len(board[Row][Col].colors) = 1
    /\ \E rc \in CellInputs :
        /\ rc # << Row, Col >>
        /\ Len(board[rc[1]][rc[2]].colors) > 0

\* The action is a chat whose payload carries a message.
CarriesMessage ==
    /\ "payload" \in DOMAIN last.message.value
    /\ "message" \in DOMAIN last.message.value.payload

\* C18: a chat with a valid token and a message sends that message,
\* unchanged, as one chat ServerMessage to every channel open at that
\* moment, the sender among them when it is open, and to no other; the
\* Board is unchanged.
C18_ChatRebroadcastVerbatim ==
    (Handling("chat") /\ TokenResolves /\ CarriesMessage)
    => /\ \A c \in Channels :
            out[c] = IF c \in OpenBefore
                     THEN << ChatLine(last.message.value.payload.message) >>
                     ELSE << >>
       /\ board = last.board

\* A chat "hi" has been handled, its sender and another channel open, and
\* the sender has received it.
C18_Witness ==
    /\ Handling("chat") /\ TokenResolves /\ CarriesMessage
    /\ last.message.value.payload.message = "hi"
    /\ Cardinality(OpenBefore) >= 2
    /\ out[last.ws] = << ChatLine("hi") >>

\* C20: a chat with a valid token whose payload carries no message, or an
\* empty one, sends nothing: every chat ServerMessage the room sends carries
\* a message that is defined and not empty.
C20_EmptyChatDropped ==
    /\ ( /\ Handling("chat") /\ TokenResolves
         /\ "payload" \in DOMAIN last.message.value
         /\ \/ "message" \notin DOMAIN last.message.value.payload
            \/ last.message.value.payload.message = "" )
        => out = NoOutput
    /\ \A c \in Channels : \A i \in DOMAIN out[c] :
        out[c][i].action = "chat"
            => "message" \in DOMAIN out[c][i] /\ out[c][i].message # ""

\* C19: whenever a handler has returned, the replica of every channel that
\* has received a syncBoard and has been open since (that syncBoard's Board
\* with every cellUpdate sent to the channel after it applied in order)
\* equals the Room's Board.
C19_ReplicaConverges ==
    \A c \in Channels :
        (readyState[c] = "OPEN" /\ replica[c].synced) => replica[c].board = board

\* A channel was synced, and after marks of both identities an unmark by
\* another channel has changed the Board; the channel's replica has followed.
C19_Witness ==
    /\ Handling("unmark") /\ TokenResolves /\ AddressesCell /\ ColorWasOnCell
    /\ board # last.board
    /\ board # InitialBoard
    /\ \E c \in Channels \ {last.ws} :
        /\ readyState[c] = "OPEN"
        /\ replica[c].synced
        /\ replica[c].board = board
====
